---------------------------- MODULE Spec2Model ----------------------------
(***************************************************************************)
(* A model of ffi-helpers' src/lib.rs: the thread-local LAST_ERROR slot,   *)
(* update_last_error, get_last_error and the extern "C" error_message.     *)
(*                                                                         *)
(* Every call is one atomic step of the calling thread.  That is faithful  *)
(* here: the only state a call touches is the caller's own thread-local    *)
(* slot and the buffer it was handed, and no call blocks or yields.        *)
(***************************************************************************)
EXTENDS Integers, Sequences, FiniteSets

---------------------------------------------------------------------------
(* Bounds of the model *)

\* Largest buffer length a caller declares.
MaxCap == 3
\* How many negative values of the c_int length argument are tried (-1, ...).
NegCaps == 1
\* Longest rendered error message, in bytes.
MaxMsgLen == 1
\* Width of usize in the model (the real targets have 32 or 64).
UsizeBits == 10
\* Width of c_int in the model (the real targets have 32).
CIntBits == 8

---------------------------------------------------------------------------
(* Values *)

Threads == {"A", "B"}

\* An error value: opaque but for its identity and its Display rendering.
\* One error of every message length, and a second one of the shortest and of
\* the longest length, told apart by their tag.
Tags == {1, 2}
Errors == {e \in [tag : Tags, len : 0..MaxMsgLen] :
             e.tag = 1 \/ e.len \in {0, MaxMsgLen}}

\* Option<Box<Error>>
None == << >>
Some(e) == << e >>
OptionErrors == {None} \cup {Some(e) : e \in Errors}

\* format!("{}", err): the bytes of the rendered message.  Errors of the same
\* length and different tags render differently unless the message is empty.
Display(e) == [i \in 1..e.len |-> 16 * e.tag + i]

\* What the caller's buffer holds in its first byte before the library ever
\* wrote to it: a byte that is neither zero nor a byte of any message.
Stale == 16 * (Cardinality(Tags) + 1)

\* The bytes of memory that are modelled: the window starts at the address
\* the caller passes and extends one byte past the largest declared length.
MemLen == MaxCap + 1
Window == 0..(MemLen - 1)

\* The values of the c_int length argument that are tried.
Lengths == (0 - NegCaps)..MaxCap

UsizeModulus == 2 ^ UsizeBits
IsizeMax == 2 ^ (UsizeBits - 1) - 1
CIntModulus == 2 ^ CIntBits

\* `length as usize`: a negative c_int sign-extends and wraps.
AsUsize(n) == n % UsizeModulus

\* `data.len() as c_int`: truncation to the width of c_int, two's complement.
AsCInt(n) == ((n + CIntModulus \div 2) % CIntModulus) - CIntModulus \div 2

VARIABLES
    slot,     \* LAST_ERROR of every thread
    alive,    \* FALSE once the process was aborted or a panic left the library
    call,     \* the latest call: who, what, with which arguments, and its outcome
    stored,   \* per thread: the error of its latest update_last_error call
    hist      \* per thread: what the thread did since that call

vars == << slot, alive, call, stored, hist >>

---------------------------------------------------------------------------
(* The thread-local slot *)

\* thread_local!: every thread reaches an instance of its own.
\* (LAST_ERROR_shared: the variant with one static shared by all threads.)
LAST_ERROR_shared(t) == "A"
LAST_ERROR(t) == t

\* update_last_error: the slot of thread t after it stores e.
\* (update_last_error_keep_first: the variant that keeps a pending error.)
update_last_error_keep_first(s, t, e) ==
    IF s[LAST_ERROR(t)] = None THEN [s EXCEPT ![LAST_ERROR(t)] = Some(e)] ELSE s
update_last_error(s, t, e) == [s EXCEPT ![LAST_ERROR(t)] = Some(e)]

\* get_last_error: Option::take on the slot of thread t.
\* (get_last_error_peek: the variant that reads without clearing.)
get_last_error_peek(s, t) == [res |-> s[LAST_ERROR(t)], slot |-> s]
get_last_error(s, t) ==
    [res |-> s[LAST_ERROR(t)], slot |-> [s EXCEPT ![LAST_ERROR(t)] = None]]

---------------------------------------------------------------------------
(* error_message *)

\* ptr::copy_nonoverlapping(data.as_ptr(), buffer.as_mut_ptr(), data.len())
copy_nonoverlapping(b, data) ==
    [i \in Window |-> IF i < Len(data) THEN data[i + 1] ELSE b[i]]

\* ptr::write_bytes(rest.as_mut_ptr(), 0, rest.len()), rest = &mut buffer[from..]
\* of a slice of len bytes.  Bytes past the window are not modelled.
\* (write_bytes_none: the variant without the fill.)
write_bytes_none(b, from, len) == b
write_bytes(b, from, len) ==
    [i \in Window |-> IF from <= i /\ i < len THEN 0 ELSE b[i]]

\* The indices of the window that the copy of n bytes and the fill up to len
\* store to.
StoredTo(n, len) == {i \in Window : i < n \/ (n <= i /\ i < len)}

\* slice::from_raw_parts_mut(buffer, length as usize) is undefined behaviour
\* when the slice would be larger than isize::MAX bytes, which is what every
\* negative length turns into.
SliceIsUB(length) == AsUsize(length) > IsizeMax

\* What a build does with such a call:
\*   "precondition"  the debug check of from_raw_parts_mut aborts the process
\*                   (builds with debug assertions);
\*   "wrapped"       the code runs on with the wrapped length (other builds).
\* A call whose slice is well defined has the one outcome "defined".
UBOutcomes == {"precondition", "wrapped"}
Outcomes(isNull, length) ==
    IF ~isNull /\ SliceIsUB(length) THEN UBOutcomes ELSE {"defined"}

Returned(r, s, b, w) ==
    [status |-> "returned", ret |-> r, slot |-> s, buf |-> b, written |-> w]
Aborted(s, b, w) ==
    [status |-> "aborted", ret |-> 0, slot |-> s, buf |-> b, written |-> w]

\* buffer.len() < bytes_required
TooSmall(len, bytes_required) == len < bytes_required

\* data.len() as c_int
Written_count(data) == AsCInt(Len(data))

\* The branch taken when the message does not fit: the error goes back into
\* the slot and nothing is stored to the buffer of len bytes.
\* (too_small_truncating: the variant that first copies what fits.)
too_small_truncating(s, b, t, err, len) ==
    Returned(-1, update_last_error(s, t, err),
             [i \in Window |->
                IF i < len /\ i < Len(Display(err)) THEN Display(err)[i + 1]
                ELSE b[i]],
             {i \in Window : i < len /\ i < Len(Display(err))})
too_small(s, b, t, err, len) ==
    Returned(-1, update_last_error(s, t, err), b, {})

\* error_message from its second statement on: buffer is not null.
\* With a wrapped length the fill runs from the message's end over the whole
\* address space: it stores to every byte of the window and then faults on
\* the first unmapped page, which kills the process.
error_message_nonnull(s, b, t, length, outcome) ==
    IF outcome = "precondition" THEN Aborted(s, b, {})
    ELSE
      LET len == AsUsize(length)
          got == get_last_error(s, t)
      IN  IF got.res = None THEN Returned(0, got.slot, b, {})
          ELSE
            LET err == got.res[1]
                data == Display(err)
                bytes_required == Len(data) + 1
            IN  IF TooSmall(len, bytes_required)
                THEN too_small(got.slot, b, t, err, len)
                ELSE
                  LET copied == copy_nonoverlapping(b, data)
                      filled == write_bytes(copied, Len(data), len)
                      w == StoredTo(Len(data), len)
                  IN  IF SliceIsUB(length)
                      THEN Aborted(got.slot, filled, w)
                      ELSE Returned(Written_count(data), got.slot, filled, w)

\* error_message(buffer, length) called by thread t with slots s, the
\* caller's memory holding b.
\* (error_message_take_first: the variant that takes the error before the
\* null check.)
error_message_take_first(s, b, t, isNull, length, outcome) ==
    IF isNull THEN Returned(-1, get_last_error(s, t).slot, b, {})
    ELSE error_message_nonnull(s, b, t, length, outcome)
error_message(s, b, t, isNull, length, outcome) ==
    IF isNull THEN Returned(-1, s, b, {})
    ELSE error_message_nonnull(s, b, t, length, outcome)

---------------------------------------------------------------------------
(* catch_panic *)

\* The texts a panic message or an error message may carry.
Texts == {"boom"}

\* Box<Any + Send + 'static>, the payload of a panic: a &'static str, a
\* String, or a value of any other type.
Payloads ==
    {[tag |-> sh, text |-> x] : sh \in {"str", "String"}, x \in Texts}
        \cup {[tag |-> "other", text |-> ""]}

\* E, the integrator's error type; here the enum Error of the documented
\* example: Message(String) or Unknown.
Message(x) == [tag |-> "Message", text |-> x]
Unknown == [tag |-> "Unknown", text |-> ""]
AppErrors == {Message(x) : x \in Texts} \cup {Unknown}

\* T, the values a wrapped operation returns.
Values == {[tag |-> "value", text |-> x] : x \in Texts}

\* impl From<Box<Any + Send + 'static>> for Error of the documented example:
\* both branches downcast to String.
From_doc_example(other) ==
    IF other.tag = "String" THEN Message(other.text)
    ELSE IF other.tag = "String" THEN Message(other.text)
    ELSE Unknown

\* The conversions an integrator may supply for E: From<Box<Any + Send>>:
\*   "doc"        the documented example, which never panics;
\*   "unwrapping" one that unwraps downcast::<String>() and so panics itself
\*                on every payload that is no String.
Conversions == {"doc", "unwrapping"}
From(conv, payload) ==
    IF conv = "doc"
    THEN [unwinds |-> FALSE, val |-> From_doc_example(payload)]
    ELSE IF payload.tag = "String"
         THEN [unwinds |-> FALSE, val |-> Message(payload.text)]
         ELSE [unwinds |-> TRUE, val |-> Unknown]

\* What a wrapped operation does: it may touch the caller's slot through
\* update_last_error or get_last_error, and then returns Ok(v), returns
\* Err(e) or panics with a payload.
Effects ==
    {[op |-> "none", err |-> None], [op |-> "take", err |-> None]}
        \cup {[op |-> "store", err |-> Some(e)] :
                  e \in {x \in Errors : x.tag = 1 /\ x.len = MaxMsgLen}}
FuncOutcomes ==
    {[kind |-> "Ok", val |-> v] : v \in Values}
        \cup {[kind |-> "Err", val |-> e] : e \in AppErrors}
        \cup {[kind |-> "panic", val |-> p] : p \in Payloads}
Funcs == [effect : Effects, outcome : FuncOutcomes]

\* The slots after the wrapped operation of thread t has run.
RunEffect(s, t, effect) ==
    IF effect.op = "store" THEN update_last_error(s, t, effect.err[1])
    ELSE IF effect.op = "take" THEN get_last_error(s, t).slot
    ELSE s

\* panic::catch_unwind(func): Ok(what func returned) or Err(payload).
catch_unwind(outcome) ==
    IF outcome.kind = "panic"
    THEN [ok |-> FALSE, inner |-> [kind |-> "Err", val |-> Unknown],
          payload |-> outcome.val]
    ELSE [ok |-> TRUE, inner |-> outcome,
          payload |-> [tag |-> "other", text |-> ""]]

\* .map_err(Into::into): the conversion runs on a caught payload only, and it
\* runs outside catch_unwind, so a panic of its own unwinds.
map_err_into(caught, conv) ==
    IF caught.ok
    THEN [ok |-> TRUE, inner |-> caught.inner, err |-> Unknown,
          converted |-> FALSE, unwinds |-> FALSE]
    ELSE [ok |-> FALSE, inner |-> caught.inner,
          err |-> From(conv, caught.payload).val,
          converted |-> TRUE,
          unwinds |-> From(conv, caught.payload).unwinds]

\* .and_then(|t| t): Ok(r) becomes r, Err(e) stays Err(e).
and_then_identity(mapped) ==
    IF mapped.ok THEN mapped.inner ELSE [kind |-> "Err", val |-> mapped.err]

\* catch_panic(func) called by thread t with slots s.
\* (catch_panic_convert_all: the variant that also converts an Err the
\* operation returned; catch_panic_store: the variant that leaves the
\* converted error in the caller's slot.)
catch_panic_convert_all(s, t, func, conv) ==
    LET mapped == map_err_into(catch_unwind(func.outcome), conv)
        normal == func.outcome.kind = "Err" \/ ~mapped.ok
    IN  [status |-> IF mapped.unwinds THEN "unwound" ELSE "returned",
         result |-> IF func.outcome.kind = "Err"
                    THEN [kind |-> "Err", val |-> Unknown]
                    ELSE and_then_identity(mapped),
         converted |-> normal,
         slot |-> RunEffect(s, t, func.effect)]
catch_panic_store(s, t, func, conv) ==
    LET mapped == map_err_into(catch_unwind(func.outcome), conv)
        after == RunEffect(s, t, func.effect)
    IN  [status |-> IF mapped.unwinds THEN "unwound" ELSE "returned",
         result |-> and_then_identity(mapped),
         converted |-> mapped.converted,
         slot |-> IF mapped.ok THEN after
                  ELSE update_last_error(after, t, CHOOSE e \in Errors : TRUE)]
catch_panic(s, t, func, conv) ==
    LET mapped == map_err_into(catch_unwind(func.outcome), conv)
    IN  [status |-> IF mapped.unwinds THEN "unwound" ELSE "returned",
         result |-> and_then_identity(mapped),
         converted |-> mapped.converted,
         slot |-> RunEffect(s, t, func.effect)]

---------------------------------------------------------------------------
(* The record of the latest call and of each thread's history *)

\* What the caller's buffer may hold when it is passed to error_message: no
\* zero byte, no byte of any message, and no two bytes alike.
StaleFill == [i \in Window |-> Stale + i]
Fills == {StaleFill}

NoCall ==
    [op |-> "none", thread |-> "A", null |-> FALSE, length |-> 0,
     before |-> StaleFill, after |-> StaleFill,
     status |-> "returned", ret |-> 0, res |-> None, pre |-> None,
     written |-> {}, histPre |-> "other",
     func |-> [effect |-> [op |-> "none", err |-> None],
               outcome |-> [kind |-> "Ok", val |-> [tag |-> "value", text |-> "boom"]]],
     conv |-> "doc", converted |-> FALSE,
     result |-> [kind |-> "Ok", val |-> [tag |-> "value", text |-> "boom"]]]

\* What a thread did since its latest update_last_error call:
\*   "fresh"    nothing;
\*   "null"     only error_message calls, each with a null buffer;
\*   "failed"   only error_message calls, each with a null buffer or with a
\*              length below the stored message's length + 1;
\*   "drained"  it called get_last_error, and whatever else;
\*   "retrieved" its latest call was an error_message that returned a count
\*              for a pending error;
\*   "other"    anything else, or the thread never stored an error.
HistAfterErrorMessage(was, st, isNull, length) ==
    IF was = "retrieved" THEN "other"
    ELSE IF was \in {"other", "drained"} \/ st = None THEN was
    ELSE IF isNull THEN (IF was = "fresh" THEN "null" ELSE was)
    ELSE IF length < Len(Display(st[1])) + 1 THEN "failed"
    ELSE "other"

Init ==
    /\ slot = [t \in Threads |-> None]
    /\ alive = TRUE
    /\ call = NoCall
    /\ stored = [t \in Threads |-> None]
    /\ hist = [t \in Threads |-> "other"]

\* Thread t calls update_last_error(e).
CallUpdateLastError(t, e) ==
    /\ alive
    /\ slot' = update_last_error(slot, t, e)
    /\ call' = [NoCall EXCEPT !.op = "update_last_error", !.thread = t,
                              !.pre = slot[t]]
    /\ stored' = [stored EXCEPT ![t] = Some(e)]
    /\ hist' = [hist EXCEPT ![t] = "fresh"]
    /\ UNCHANGED alive

\* Thread t calls get_last_error().
CallGetLastError(t) ==
    /\ alive
    /\ LET got == get_last_error(slot, t)
       IN  /\ slot' = got.slot
           /\ call' = [NoCall EXCEPT !.op = "get_last_error", !.thread = t,
                                     !.res = got.res, !.pre = slot[t],
                                     !.histPre = hist[t]]
    /\ hist' = [hist EXCEPT ![t] = "drained"]
    /\ UNCHANGED << alive, stored >>

\* An error_message call with outcome r retrieved the error that was pending
\* in was: it returned a count.
Retrieved(r, was) == was # None /\ r.status = "returned" /\ r.ret >= 0

\* Thread t calls error_message(buffer, length).  The buffer is the caller's:
\* it holds b0 when the call is made, and buffer is null or points to it.
CallErrorMessage(t, isNull, b0, length, outcome) ==
    /\ alive
    /\ LET r == error_message(slot, b0, t, isNull, length, outcome)
       IN  /\ slot' = r.slot
           /\ alive' = (r.status = "returned")
           /\ call' = [NoCall EXCEPT !.op = "error_message", !.thread = t,
                                     !.null = isNull, !.length = length,
                                     !.before = b0, !.after = r.buf,
                                     !.status = r.status, !.ret = r.ret,
                                     !.pre = slot[t], !.written = r.written,
                                     !.histPre = hist[t]]
           /\ hist' = [hist EXCEPT
                         ![t] = IF Retrieved(r, slot[t]) THEN "retrieved"
                                ELSE HistAfterErrorMessage(hist[t], stored[t],
                                                           isNull, length)]
    /\ UNCHANGED stored

\* What a thread did, after a catch_panic call whose operation had the given
\* effect: a store and a take count as the calls they are, and anything else
\* ends a run of error_message calls.
HistAfterCatchPanic(was, effect) ==
    IF effect.op = "store" THEN "fresh"
    ELSE IF effect.op = "take" \/ was = "drained" THEN "drained"
    ELSE "other"

\* Thread t calls catch_panic(func), E's conversion being conv.  A panic that
\* leaves catch_panic unwinds into the caller, where the model stops.
CallCatchPanic(t, func, conv) ==
    /\ alive
    /\ LET r == catch_panic(slot, t, func, conv)
       IN  /\ slot' = r.slot
           /\ alive' = (r.status = "returned")
           /\ call' = [NoCall EXCEPT !.op = "catch_panic", !.thread = t,
                                     !.status = r.status, !.pre = slot[t],
                                     !.histPre = hist[t],
                                     !.func = func, !.conv = conv,
                                     !.converted = r.converted,
                                     !.result = r.result]
    /\ stored' = IF func.effect.op = "store"
                 THEN [stored EXCEPT ![t] = func.effect.err]
                 ELSE stored
    /\ hist' = [hist EXCEPT ![t] = HistAfterCatchPanic(hist[t], func.effect)]

Next ==
    \/ \E t \in Threads, e \in Errors : CallUpdateLastError(t, e)
    \/ \E t \in Threads : CallGetLastError(t)
    \/ \E t \in Threads, isNull \in BOOLEAN, length \in Lengths :
          \E b0 \in Fills,
             outcome \in Outcomes(isNull, length) :
               CallErrorMessage(t, isNull, b0, length, outcome)

Spec == Init /\ [][Next]_vars

\* The threads call catch_panic around operations of every kind, and reach
\* the slot directly as well; error_message is called with a buffer of the
\* largest length only.
GuardNext ==
    \/ \E t \in Threads, func \in Funcs, conv \in Conversions :
          CallCatchPanic(t, func, conv)
    \/ \E t \in Threads, e \in Errors : CallUpdateLastError(t, e)
    \/ \E t \in Threads : CallGetLastError(t)
    \/ \E t \in Threads, b0 \in Fills :
          CallErrorMessage(t, FALSE, b0, MaxCap, "defined")

GuardSpec == Init /\ [][GuardNext]_vars

\* A caller's retry loop: a thread stores an error, calls error_message with
\* a non-null buffer of some length, calls again with a strictly larger
\* length after every -1, and goes on calling once it got a count.  No other
\* call is made.  The largest length the caller can reach is MaxCap.
RetryStore(t, e) ==
    /\ call.op = "none"
    /\ CallUpdateLastError(t, e)

RetryFirst(t, length) ==
    /\ call.op = "update_last_error" /\ call.thread = t
    /\ \E b0 \in Fills, outcome \in Outcomes(FALSE, length) :
         CallErrorMessage(t, FALSE, b0, length, outcome)

RetryLarger(t, length) ==
    /\ call.op = "error_message" /\ call.thread = t
    /\ call.status = "returned" /\ call.ret = -1
    /\ length > call.length
    /\ \E b0 \in Fills, outcome \in Outcomes(FALSE, length) :
         CallErrorMessage(t, FALSE, b0, length, outcome)

RetryLater(t, length) ==
    /\ call.op = "error_message" /\ call.thread = t
    /\ call.status = "returned" /\ call.ret >= 0
    /\ \E b0 \in Fills, outcome \in Outcomes(FALSE, length) :
         CallErrorMessage(t, FALSE, b0, length, outcome)

RetryNext ==
    \/ \E t \in Threads, e \in Errors : RetryStore(t, e)
    \/ \E t \in Threads, length \in Lengths : RetryFirst(t, length)
    \/ \E t \in Threads, length \in Lengths : RetryLarger(t, length)
    \/ \E t \in Threads, length \in Lengths : RetryLater(t, length)

\* The caller keeps calling as long as it can.
RetrySpec == Init /\ [][RetryNext]_vars /\ WF_vars(RetryNext)

TypeOK ==
    /\ slot \in [Threads -> OptionErrors]
    /\ call.after \in [Window -> 0..255]
    /\ alive \in BOOLEAN
    /\ stored \in [Threads -> OptionErrors]
    /\ hist \in [Threads -> {"fresh", "null", "failed", "drained", "retrieved",
                             "other"}]

---------------------------------------------------------------------------
(* Vocabulary of the claims *)

\* The latest call is error_message with a buffer that is not null.
NonNullCall == call.op = "error_message" /\ ~call.null

\* Length of the rendered message of the error an Option holds.
MsgLen(o) == Len(Display(o[1]))

\* Buffer b starts with the rendered message of the error in o.
Delivered(b, o) == \A i \in 1..MsgLen(o) : b[i - 1] = Display(o[1])[i]

\* The latest call returned r.
Gave(r) == call.status = "returned" /\ call.ret = r

---------------------------------------------------------------------------
(* C1 *)

\* C1: a call with a non-null buffer, a pending error whose message is N
\* bytes and a length below N+1 (zero and negative lengths included) returns
\* -1 and leaves that same error in the caller's slot.
C1_TooSmallKeepsError ==
    (NonNullCall /\ call.pre # None /\ call.length < MsgLen(call.pre) + 1)
        => (Gave(-1) /\ slot[call.thread] = call.pre)

\* C1, lengths from 0 on: there the statement holds.
C1_TooSmallKeepsError_NonNegative ==
    (NonNullCall /\ call.pre # None /\ call.length >= 0
        /\ call.length < MsgLen(call.pre) + 1)
        => (Gave(-1) /\ slot[call.thread] = call.pre /\ call.after = call.before)

---------------------------------------------------------------------------
(* C2 *)

\* C2: after update_last_error(e), e's message being N bytes, any number of
\* error_message calls with a null buffer or a length below N+1, and then a
\* call with a non-null buffer and a length of at least N+1: that call
\* returns N and delivers e's message.  Stated so that a finite run decides
\* it: after such calls the process is alive and e is still pending, and the
\* final call returns N with the message in the buffer.
C2_FailedCallsThenSuccess ==
    /\ \A t \in Threads :
         hist[t] \in {"fresh", "null", "failed"} => (alive /\ slot[t] = stored[t])
    /\ (NonNullCall /\ call.histPre \in {"fresh", "null", "failed"}
          /\ call.length >= MsgLen(stored[call.thread]) + 1)
         => (Gave(MsgLen(stored[call.thread]))
               /\ Delivered(call.after, stored[call.thread]))

---------------------------------------------------------------------------
(* C3 *)

\* C3: with an error pending whose message is N bytes, a non-null buffer and
\* a length of at least N+1, error_message returns N, the buffer's bytes
\* [0, N) are the message and its bytes [N, length) are zero.
C3_WritesMessageAndZeroes ==
    (NonNullCall /\ call.pre # None /\ call.length >= MsgLen(call.pre) + 1)
        => /\ Gave(MsgLen(call.pre))
           /\ Delivered(call.after, call.pre)
           /\ \A i \in Window :
                (MsgLen(call.pre) <= i /\ i < call.length) => call.after[i] = 0

\* C3 happens: a message of at least one byte was written into a buffer of
\* exactly N+1 bytes that held no zero before.
C3_Witness ==
    /\ NonNullCall /\ call.pre # None
    /\ MsgLen(call.pre) >= 1
    /\ call.length = MsgLen(call.pre) + 1
    /\ call.before[MsgLen(call.pre)] # 0
    /\ Gave(MsgLen(call.pre))

---------------------------------------------------------------------------
(* C4 *)

\* C4: error_message returns 0 only if no error was pending when it was
\* called.
C4_ZeroOnlyWhenEmpty ==
    (call.op = "error_message" /\ Gave(0)) => call.pre = None

---------------------------------------------------------------------------
(* C5 *)

\* C5: error_message stores only to buffer bytes with an index in
\* [0, length), whatever the slot holds and whatever the signed length is.
C5_WritesWithinLength ==
    call.op = "error_message"
        => /\ call.written \subseteq {i \in Window : 0 <= i /\ i < call.length}
           /\ \A i \in Window : ~(0 <= i /\ i < call.length)
                                   => call.after[i] = call.before[i]

\* C5, lengths from 0 on: there the statement holds.
C5_WritesWithinLength_NonNegative ==
    (call.op = "error_message" /\ call.length >= 0)
        => /\ call.written \subseteq {i \in Window : 0 <= i /\ i < call.length}
           /\ \A i \in Window : ~(0 <= i /\ i < call.length)
                                   => call.after[i] = call.before[i]

---------------------------------------------------------------------------
(* C6 *)

\* C6: error_message with a null buffer returns -1 whatever the slot and the
\* length are and leaves the caller's slot as it was; a pending error is
\* still retrieved by a following call with a buffer that is large enough.
C6_NullBufferKeepsError ==
    /\ (call.op = "error_message" /\ call.null)
         => (Gave(-1) /\ slot[call.thread] = call.pre
               /\ call.after = call.before)
    /\ (NonNullCall /\ call.histPre = "null"
          /\ call.length >= MsgLen(stored[call.thread]) + 1)
         => (Gave(MsgLen(stored[call.thread]))
               /\ Delivered(call.after, stored[call.thread])
               /\ slot[call.thread] = None)

\* C6 happens: an error was retrieved right after null-buffer calls.
C6_Witness ==
    /\ NonNullCall /\ call.histPre = "null"
    /\ call.pre # None /\ MsgLen(call.pre) >= 1
    /\ Gave(MsgLen(call.pre))

---------------------------------------------------------------------------
(* C7 *)

\* C7: with an empty slot, error_message with a non-null buffer and any
\* length returns 0, leaves every byte of the buffer as it was and leaves the
\* slot empty.
C7_EmptySlotReturnsZero ==
    (NonNullCall /\ call.pre = None)
        => (Gave(0) /\ call.after = call.before /\ call.written = {}
              /\ slot[call.thread] = None)

\* C7, lengths from 0 on: there the statement holds.
C7_EmptySlotReturnsZero_NonNegative ==
    (NonNullCall /\ call.pre = None /\ call.length >= 0)
        => (Gave(0) /\ call.after = call.before /\ call.written = {}
              /\ slot[call.thread] = None)

---------------------------------------------------------------------------
(* C8 *)

\* C8: get_last_error returns what the slot held and leaves it empty; right
\* after update_last_error(e) it returns e, and once a thread has called it,
\* every further get_last_error of that thread returns None until the thread
\* stores again.
C8_OneShot ==
    call.op = "get_last_error"
        => /\ call.res = call.pre
           /\ slot[call.thread] = None
           /\ call.histPre = "fresh"
                => (call.res # None /\ call.res = stored[call.thread])
           /\ call.histPre = "drained" => call.res = None

\* C8 happens: a thread that stored an error and took it takes again.
C8_Witness ==
    /\ call.op = "get_last_error"
    /\ call.histPre = "drained"
    /\ stored[call.thread] # None
    /\ call.res = None

---------------------------------------------------------------------------
(* C9 *)

\* C9: a thread's slot is empty or holds the error the thread stored last;
\* update_last_error always leaves its argument in the slot, whatever was
\* there; and what get_last_error or a successful error_message yields is the
\* error stored last.
C9_LastStoredWins ==
    /\ \A t \in Threads : slot[t] \in {None, stored[t]}
    /\ call.op = "update_last_error"
         => (slot[call.thread] = stored[call.thread]
               /\ slot[call.thread] # None)
    /\ (call.op = "get_last_error" /\ call.res # None)
         => call.res = stored[call.thread]
    /\ (NonNullCall /\ call.pre # None /\ call.status = "returned"
          /\ call.ret >= 0)
         => (call.pre = stored[call.thread]
               /\ Delivered(call.after, stored[call.thread])
               /\ call.ret = MsgLen(stored[call.thread]))

\* C9 happens: an error was stored over a different pending one.
C9_Witness ==
    /\ call.op = "update_last_error"
    /\ call.pre # None
    /\ call.pre # stored[call.thread]
    /\ slot[call.thread] = stored[call.thread]

---------------------------------------------------------------------------
(* C10 *)

\* What a call of one thread leaves alone: the slot of every other thread.
OthersUntouched ==
    \A t \in Threads : t # call'.thread => slot'[t] = slot[t]

\* What a thread sees is its own history only: while it has done nothing
\* since its store the error is pending, and if it never stored, its
\* get_last_error returns None.
OwnSlotOnly ==
    /\ \A t \in Threads : hist[t] = "fresh" => slot[t] = stored[t]
    /\ \A t \in Threads : stored[t] = None => slot[t] = None
    /\ (call.op = "get_last_error" /\ stored[call.thread] = None)
         => call.res = None

\* C10: under every interleaving of the calls of several threads, a call of
\* one thread neither changes nor reads the slot of another.
C10_ThreadAffinity == [](OwnSlotOnly) /\ [][OthersUntouched]_vars

\* C10 happens: B, which never stored, took and got None while A's error is
\* pending and untouched since A stored it.
C10_Witness ==
    /\ call.op = "get_last_error" /\ call.thread = "B"
    /\ stored["B"] = None /\ call.res = None
    /\ hist["A"] = "fresh" /\ slot["A"] = stored["A"] /\ slot["A"] # None

---------------------------------------------------------------------------
(* C11 *)

\* The latest call is catch_panic around an operation that panicked.
CaughtCall == call.op = "catch_panic" /\ call.func.outcome.kind = "panic"

\* C11: whenever the wrapped operation panics, catch_panic returns normally
\* with Err(E), E being the integrator's conversion of the payload; no panic
\* reaches catch_panic's caller, the conversion's own included.
C11_FaultNeverEscapes ==
    CaughtCall
        => /\ call.status = "returned"
           /\ call.result =
                [kind |-> "Err",
                 val |-> From(call.conv, call.func.outcome.val).val]

\* C11, for a conversion that does not panic itself: there the statement
\* holds.
C11_FaultNeverEscapes_TotalConversion ==
    (CaughtCall /\ ~From(call.conv, call.func.outcome.val).unwinds)
        => /\ call.status = "returned"
           /\ call.result =
                [kind |-> "Err",
                 val |-> From(call.conv, call.func.outcome.val).val]

---------------------------------------------------------------------------
(* C12 *)

\* C12: when the wrapped operation returns Ok(v) or Err(e), catch_panic
\* returns exactly that, and the conversion is not applied.
C12_PassThrough ==
    (call.op = "catch_panic" /\ call.func.outcome.kind # "panic")
        => /\ call.status = "returned"
           /\ call.result = call.func.outcome
           /\ ~call.converted

\* C12 happens: an operation returned Err(Message(..)) and catch_panic
\* returned it.
C12_Witness ==
    /\ call.op = "catch_panic"
    /\ call.func.outcome.kind = "Err"
    /\ call.func.outcome.val.tag = "Message"
    /\ call.result = call.func.outcome

---------------------------------------------------------------------------
(* C13 *)

\* C13: an error_message call that returns the message length consumes the
\* error: the slot is empty afterwards, and the error_message call with a
\* non-null buffer that follows it immediately on the same thread returns 0
\* and leaves the buffer as it was.
C13_SuccessConsumes ==
    /\ (NonNullCall /\ call.pre # None /\ Gave(MsgLen(call.pre)))
         => slot[call.thread] = None
    /\ \A t \in Threads : hist[t] = "retrieved" => slot[t] = None
    /\ (NonNullCall /\ call.histPre = "retrieved")
         => (Gave(0) /\ call.after = call.before
               /\ slot[call.thread] = None)

\* C13, the following call having a length from 0 on: there the statement
\* holds.
C13_SuccessConsumes_NonNegative ==
    /\ (NonNullCall /\ call.pre # None /\ Gave(MsgLen(call.pre)))
         => slot[call.thread] = None
    /\ \A t \in Threads : hist[t] = "retrieved" => slot[t] = None
    /\ (NonNullCall /\ call.histPre = "retrieved" /\ call.length >= 0)
         => (Gave(0) /\ call.after = call.before
               /\ slot[call.thread] = None)

---------------------------------------------------------------------------
(* C14 *)

\* C14: with the documented conversion, a payload that is a &'static str or
\* a String becomes an error whose message is the payload's text, and only a
\* payload of another type becomes Unknown.
C14_TextPayloadsKeepTheirText ==
    (CaughtCall /\ call.conv = "doc")
        => call.result =
             [kind |-> "Err",
              val |-> IF call.func.outcome.val.tag \in {"str", "String"}
                      THEN Message(call.func.outcome.val.text)
                      ELSE Unknown]

\* C14, String payloads and payloads without text: there the statement
\* holds.
C14_TextPayloadsKeepTheirText_NoStr ==
    (CaughtCall /\ call.conv = "doc" /\ call.func.outcome.val.tag # "str")
        => call.result =
             [kind |-> "Err",
              val |-> IF call.func.outcome.val.tag = "String"
                      THEN Message(call.func.outcome.val.text)
                      ELSE Unknown]

---------------------------------------------------------------------------
(* C15 *)

\* C15: an error_message call that returns -1, for a null buffer or for a
\* buffer that is too small, leaves every byte of the buffer as it was; a
\* call that changes the buffer is one that took an error out of the slot.
C15_FailureLeavesBuffer ==
    /\ (call.op = "error_message" /\ Gave(-1))
         => (call.after = call.before /\ call.written = {})
    /\ (call.op = "error_message"
          /\ (call.after # call.before \/ call.written # {}))
         => (call.pre # None /\ slot[call.thread] = None)

\* C15 happens: a buffer of at least one byte was too small for the pending
\* message, and the call returned -1.
C15_Witness ==
    /\ NonNullCall /\ Gave(-1)
    /\ call.pre # None
    /\ call.length >= 1
    /\ call.length < MsgLen(call.pre) + 1

---------------------------------------------------------------------------
(* C16 *)

\* The latest call is the one that handed out the stored message's length.
GotMessage ==
    /\ NonNullCall /\ call.pre # None
    /\ Gave(MsgLen(stored[call.thread]))

\* The latest call is an error_message call made after the message was
\* handed out.
LaterCall == NonNullCall /\ call.histPre \in {"retrieved", "other"}

\* C16: in the retry loop, after update_last_error(e) the caller eventually
\* gets N, the length of e's message, and every later call returns 0.
C16_RetryTerminates ==
    /\ [](call.op = "update_last_error" => <>GotMessage)
    /\ [](LaterCall => Gave(0))

\* C16, for a loop whose lengths are all from 0 on: there the statement
\* holds.
C16_RetryTerminates_NonNegative ==
    /\ [](call.op = "update_last_error"
            => <>(GotMessage \/ (NonNullCall /\ call.length < 0)))
    /\ []((LaterCall /\ call.length >= 0) => Gave(0))

---------------------------------------------------------------------------
(* C17 *)

\* C17: catch_panic itself leaves the caller's slot alone: after the call
\* the slot is what the wrapped operation made of it, whether the operation
\* returned Ok, returned Err or panicked; an intercepted panic is in the slot
\* only if the operation stored something.
C17_GuardLeavesSlot ==
    call.op = "catch_panic"
        => /\ call.func.effect.op = "none" => slot[call.thread] = call.pre
           /\ call.func.effect.op = "take" => slot[call.thread] = None
           /\ call.func.effect.op = "store"
                => slot[call.thread] = call.func.effect.err

\* C17 happens: a panic was intercepted and converted while the slot was
\* empty and the operation had not touched it, and the slot is empty still.
C17_Witness ==
    /\ CaughtCall
    /\ call.status = "returned" /\ call.result.kind = "Err"
    /\ call.func.effect.op = "none"
    /\ call.pre = None /\ slot[call.thread] = None

=============================================================================
